---- MODULE Spec2Model ----
(***************************************************************************)
(* A model of generate_pizza.py: the 5x7 bitmap font, build_bitmap, the    *)
(* date alignment of main, and the sequential commit loop.                 *)
(*                                                                         *)
(* Strings are sequences of one-character strings.  A datetime.date is its *)
(* proleptic Gregorian ordinal (date.toordinal()), which is what the       *)
(* library's date +/- timedelta arithmetic works on; a result outside      *)
(* date.min .. date.max raises OverflowError.  Rows and columns are        *)
(* 0-based as in the source; sequences are 1-based, hence the "+ 1".       *)
(***************************************************************************)
EXTENDS Integers, Sequences, FiniteSets, TLC

VARIABLES
    pc,                  \* position of main
    message,             \* MESSAGE, the module-level string that main draws
    args,                \* the argparse namespace
    bitmap,              \* main: bitmap
    total_cols,          \* main: total_cols
    today,               \* main: today
    current_week_sunday, \* main: current_week_sunday
    start_sunday,        \* main: start_sunday
    commits_to_make,     \* main: commits_to_make
    confirm,             \* main: confirm
    d_idx,               \* commit loop: 1-based index of d in commits_to_make
    i,                   \* commit loop: i of range(args.commits_per_pixel)
    announced,           \* the "Total commits to create" number printed
    listed,              \* the dates the dry run printed
    stdout,              \* which messages were printed to stdout
    stderr,              \* which messages were printed to stderr
    git_log,             \* the commits git created, oldest first
    git_calls            \* how many times "git commit" was run

vars == <<pc, message, args, bitmap, total_cols, today, current_week_sunday,
          start_sunday, commits_to_make, confirm, d_idx, i, announced, listed,
          stdout, stderr, git_log, git_calls>>

-----------------------------------------------------------------------------
(* Bounds of the model *)

MaxMsgLen == 2
MaxCommitsPerPixel == 2

-----------------------------------------------------------------------------
(* The font *)

None == <<>>

GlyphP == << <<"1","1","1","1","0">>,
             <<"1","0","0","0","1">>,
             <<"1","0","0","0","1">>,
             <<"1","1","1","1","0">>,
             <<"1","0","0","0","0">>,
             <<"1","0","0","0","0">>,
             <<"1","0","0","0","0">> >>

GlyphI == << <<"0","1","1","1","0">>,
             <<"0","0","1","0","0">>,
             <<"0","0","1","0","0">>,
             <<"0","0","1","0","0">>,
             <<"0","0","1","0","0">>,
             <<"0","0","1","0","0">>,
             <<"0","1","1","1","0">> >>

GlyphZ == << <<"1","1","1","1","1">>,
             <<"0","0","0","0","1">>,
             <<"0","0","0","1","0">>,
             <<"0","0","1","0","0">>,
             <<"0","1","0","0","0">>,
             <<"1","0","0","0","0">>,
             <<"1","1","1","1","1">> >>

GlyphA == << <<"0","1","1","1","0">>,
             <<"1","0","0","0","1">>,
             <<"1","0","0","0","1">>,
             <<"1","1","1","1","1">>,
             <<"1","0","0","0","1">>,
             <<"1","0","0","0","1">>,
             <<"1","0","0","0","1">> >>

GlyphBang == << <<"0","0","1","0","0">>,
                <<"0","0","1","0","0">>,
                <<"0","0","1","0","0">>,
                <<"0","0","1","0","0">>,
                <<"0","0","1","0","0">>,
                <<"0","0","0","0","0">>,
                <<"0","0","1","0","0">> >>

\* FONT as it stands once the module is loaded: the literal, then the four
\* lowercase keys rebound to the uppercase patterns.
FONT ==
    [ch \in {"P", "I", "Z", "A", "!", "p", "i", "z", "a"} |->
        CASE ch \in {"P", "p"} -> GlyphP
          [] ch \in {"I", "i"} -> GlyphI
          [] ch \in {"Z", "z"} -> GlyphZ
          [] ch \in {"A", "a"} -> GlyphA
          [] OTHER -> GlyphBang]

\* FONT.get(ch)
FONT_get(ch) == IF ch \in DOMAIN FONT THEN FONT[ch] ELSE None

MESSAGE == <<"P", "i", "z", "z", "a", "!">>

-----------------------------------------------------------------------------
(* build_bitmap *)

\* "0" * gap
RECURSIVE Zeros(_)
Zeros(gap) == IF gap <= 0 THEN <<>> ELSE <<"0">> \o Zeros(gap - 1)

\* The loop of build_bitmap from character k on, rows being what the earlier
\* iterations built; `first` is True exactly at k = 1.
RECURSIVE build_bitmap_loop(_, _, _, _)
build_bitmap_loop(msg, gap, k, rows) ==
    IF k > Len(msg)
    THEN [raised |-> FALSE, rows |-> rows]
    ELSE LET first   == (k = 1)
             gapped  == IF ~first
                        THEN [r \in 1..7 |-> rows[r] \o Zeros(gap)]
                        ELSE rows
             pattern == FONT_get(msg[k])
         IN  IF pattern = None
             THEN [raised |-> TRUE, rows |-> <<>>]
             ELSE build_bitmap_loop(msg, gap, k + 1,
                      [r \in 1..7 |-> gapped[r] \o pattern[r]])

\* A build_bitmap that appends the gap after every glyph instead of before
\* every glyph but the first.
RECURSIVE build_bitmap_trailing_gap_loop(_, _, _, _)
build_bitmap_trailing_gap_loop(msg, gap, k, rows) ==
    IF k > Len(msg)
    THEN [raised |-> FALSE, rows |-> rows]
    ELSE LET pattern == FONT_get(msg[k])
         IN  IF pattern = None
             THEN [raised |-> TRUE, rows |-> <<>>]
             ELSE build_bitmap_trailing_gap_loop(msg, gap, k + 1,
                      [r \in 1..7 |-> rows[r] \o pattern[r] \o Zeros(gap)])

build_bitmap_trailing_gap(msg, gap) ==
    build_bitmap_trailing_gap_loop(msg, gap, 1, [r \in 1..7 |-> <<>>])

\* A build_bitmap that doubles the gap between glyphs.
build_bitmap_wide_gap(msg, gap) ==
    build_bitmap_loop(msg, gap + 1, 1, [r \in 1..7 |-> <<>>])

\* build_bitmap(message, gap): raised is the ValueError, rows the result.
build_bitmap(msg, gap) ==
    build_bitmap_loop(msg, gap, 1, [r \in 1..7 |-> <<>>])

-----------------------------------------------------------------------------
(* Dates *)

is_leap(y) == y % 4 = 0 /\ (y % 100 # 0 \/ y % 400 = 0)

days_in_month(y, m) ==
    IF m = 2 THEN (IF is_leap(y) THEN 29 ELSE 28)
    ELSE IF m \in {4, 6, 9, 11} THEN 30 ELSE 31

RECURSIVE days_before_month(_, _)
days_before_month(y, m) ==
    IF m <= 1 THEN 0 ELSE days_before_month(y, m - 1) + days_in_month(y, m - 1)

days_before_year(y) ==
    (y - 1) * 365 + ((y - 1) \div 4) - ((y - 1) \div 100) + ((y - 1) \div 400)

\* date(y, m, d).toordinal()
ymd2ord(y, m, d) == days_before_year(y) + days_before_month(y, m) + d

\* date.min and date.max, as ordinals
MinOrdinal == ymd2ord(1, 1, 1)
MaxOrdinal == ymd2ord(9999, 12, 31)

\* whether date arithmetic yielding ordinal o succeeds (else OverflowError)
InRange(o) == MinOrdinal <= o /\ o <= MaxOrdinal

\* date.weekday(): Monday = 0 .. Sunday = 6
weekday(date) == (date + 6) % 7

\* datetime.datetime.strptime(s, "%Y-%m-%d").date(): raised is the ValueError.
\* A string is [kind |-> "ymd", y, m, d] when it reads as digits-digits-digits
\* and [kind |-> "text"] or [kind |-> "empty"] otherwise.
strptime_date(s) ==
    IF s.kind = "ymd" /\ s.y \in 1..9999 /\ s.m \in 1..12
       /\ s.d \in 1..days_in_month(s.y, s.m)
    THEN [raised |-> FALSE, date |-> ymd2ord(s.y, s.m, s.d)]
    ELSE [raised |-> TRUE, date |-> 0]

\* sunday_for, the helper the source keeps but never calls: it subtracts
\* weekday() + 1 days even on a Sunday.
sunday_for(date) == date - (weekday(date) + 1)

\* A get_sunday_of_week without the "+ 1": it returns the Monday of the week.
monday_of_week(date) == date - weekday(date)

\* get_sunday_of_week(date); the result may lie before date.min
get_sunday_of_week(date) ==
    LET days_to_subtract == (weekday(date) + 1) % 7
    IN  date - days_to_subtract

-----------------------------------------------------------------------------
(* The date-mapping loop of main *)

\* start_sunday + datetime.timedelta(weeks=col)
week_start_of(start, col) == start + 7 * col

\* A pixel date that counts the rows from 1 instead of 0.
pixel_date_one_based(week_start, row) == week_start + row + 1

\* week_start + datetime.timedelta(days=row)
pixel_date_of(week_start, row) == week_start + row

\* The inner loop, "for row in range(7)", from `row` on.
RECURSIVE map_rows(_, _, _, _, _)
map_rows(bm, col, row, week_start, acc) ==
    IF row >= 7
    THEN [raised |-> FALSE, list |-> acc]
    ELSE LET pixel_on == bm[row + 1][col + 1] = "1"
         IN  IF pixel_on
             THEN LET pixel_date == pixel_date_of(week_start, row)
                  IN  IF InRange(pixel_date)
                      THEN map_rows(bm, col, row + 1, week_start,
                                    Append(acc, pixel_date))
                      ELSE [raised |-> TRUE, list |-> acc]
             ELSE map_rows(bm, col, row + 1, week_start, acc)

\* The outer loop, "for col in range(total_cols)", from `col` on.
RECURSIVE map_cols(_, _, _, _, _)
map_cols(bm, cols, start, col, acc) ==
    IF col >= cols
    THEN [raised |-> FALSE, list |-> acc]
    ELSE LET week_start == week_start_of(start, col)
         IN  IF ~InRange(week_start)
             THEN [raised |-> TRUE, list |-> acc]
             ELSE LET inner == map_rows(bm, col, 0, week_start, acc)
                  IN  IF inner.raised
                      THEN inner
                      ELSE map_cols(bm, cols, start, col + 1, inner.list)

-----------------------------------------------------------------------------
(* The inputs the model draws *)

Str(kind, y, m, d) == [kind |-> kind, y |-> y, m |-> m, d |-> d]

\* args.start_sunday: absent (None), '', a non-date text, or digits Y-M-D.
\* The Y-M-D values cover the first week of the calendar (date.min is a
\* Monday), one whole modern week from a Sunday on, a Sunday five weeks before
\* the last Sunday of the calendar, and a day that does not exist.
StartSundayArgs ==
    {Str("None", 0, 0, 0), Str("empty", 0, 0, 0), Str("text", 0, 0, 0)}
    \cup {Str("ymd", 1, 1, dd) : dd \in 1..7}
    \cup {Str("ymd", 2024, 1, dd) : dd \in 7..13}
    \cup {Str("ymd", 9999, 11, 28), Str("ymd", 2024, 2, 30)}

\* --commits-per-pixel is type=int: argparse accepts any integer.
CommitsPerPixelArgs == (0 - 1)..MaxCommitsPerPixel

\* What date.today() returns: one whole week of the system clock.
TodayDates == {ymd2ord(2026, 11, dd) : dd \in 1..7}

\* Characters messages are made of; "?" has no font entry.
Alphabet == {"!", "z", "?"}

RECURSIVE SeqsUpTo(_, _)
SeqsUpTo(S, n) ==
    IF n = 0 THEN {<<>>}
    ELSE LET shorter == SeqsUpTo(S, n - 1)
         IN  shorter \cup {Append(q, c) : q \in shorter, c \in S}

Messages == {MESSAGE} \cup SeqsUpTo(Alphabet, MaxMsgLen)

\* What the operator types at the prompt.
Answers == {"y", "Y", "n", "yes", ""}

\* str.lower() on those answers
lower(s) == IF s = "Y" THEN "y" ELSE s

\* bool(args.start_sunday): None and '' are falsy
Truthy(s) == s.kind \notin {"None", "empty"}

-----------------------------------------------------------------------------
(* main *)

Init ==
    /\ pc = "parse_args"
    /\ message \in Messages
    /\ args = [commits_per_pixel |-> 4, start_sunday |-> Str("None", 0, 0, 0),
               dry_run |-> FALSE]
    /\ bitmap = <<>>
    /\ total_cols = 0
    /\ today = 0
    /\ current_week_sunday = 0
    /\ start_sunday = 0
    /\ commits_to_make = <<>>
    /\ confirm = "<unbound>"
    /\ d_idx = 0
    /\ i = 0
    /\ announced = 0
    /\ listed = <<>>
    /\ stdout = {}
    /\ stderr = {}
    /\ git_log = <<>>
    /\ git_calls = 0

\* parse_args()
ParseArgs ==
    /\ pc = "parse_args"
    /\ \E n \in CommitsPerPixelArgs, s \in StartSundayArgs, dry \in BOOLEAN :
          args' = [commits_per_pixel |-> n, start_sunday |-> s, dry_run |-> dry]
    /\ pc' = "ensure_git_repo"
    /\ UNCHANGED <<message, bitmap, total_cols, today, current_week_sunday,
                   start_sunday, commits_to_make, confirm, d_idx, i, announced,
                   listed, stdout, stderr, git_log, git_calls>>

\* ensure_git_repo(): git rev-parse succeeds, or the run exits with status 1
EnsureGitRepo ==
    /\ pc = "ensure_git_repo"
    /\ \E inside \in BOOLEAN :
          IF inside
          THEN pc' = "build_bitmap" /\ stderr' = stderr
          ELSE pc' = "sys_exit" /\ stderr' = stderr \cup {"not_a_git_repo"}
    /\ UNCHANGED <<message, args, bitmap, total_cols, today,
                   current_week_sunday, start_sunday, commits_to_make, confirm,
                   d_idx, i, announced, listed, stdout, git_log, git_calls>>

\* bitmap = build_bitmap(MESSAGE, gap=1); total_cols = len(bitmap[0])
BuildBitmap ==
    /\ pc = "build_bitmap"
    /\ LET built == build_bitmap(message, 1)
       IN  IF built.raised
           THEN /\ pc' = "traceback"
                /\ stderr' = stderr \cup {"ValueError"}
                /\ UNCHANGED <<bitmap, total_cols>>
           ELSE /\ pc' = "today"
                /\ bitmap' = built.rows
                /\ total_cols' = Len(built.rows[1])
                /\ stderr' = stderr
    /\ UNCHANGED <<message, args, today, current_week_sunday, start_sunday,
                   commits_to_make, confirm, d_idx, i, announced, listed,
                   stdout, git_log, git_calls>>

\* today, current_week_sunday and the right-aligned start_sunday
AlignToToday ==
    /\ pc = "today"
    /\ \E t \in TodayDates :
          LET sunday == get_sunday_of_week(t)
              start  == sunday - 7 * (total_cols - 1)
          IN  /\ today' = t
              /\ IF ~InRange(sunday)
                 THEN /\ pc' = "traceback"
                      /\ stderr' = stderr \cup {"OverflowError"}
                      /\ UNCHANGED <<current_week_sunday, start_sunday>>
                 ELSE /\ current_week_sunday' = sunday
                      /\ IF ~InRange(start)
                         THEN /\ pc' = "traceback"
                              /\ stderr' = stderr \cup {"OverflowError"}
                              /\ UNCHANGED start_sunday
                         ELSE /\ pc' = "start_sunday"
                              /\ start_sunday' = start
                              /\ stderr' = stderr
    /\ UNCHANGED <<message, args, bitmap, total_cols, commits_to_make, confirm,
                   d_idx, i, announced, listed, stdout, git_log, git_calls>>

\* if args.start_sunday: parse it, warn and snap it back when it is no Sunday
ApplyStartSunday ==
    /\ pc = "start_sunday"
    /\ IF ~Truthy(args.start_sunday)
       THEN /\ pc' = "report"
            /\ UNCHANGED <<start_sunday, stdout, stderr>>
       ELSE LET parsed == strptime_date(args.start_sunday)
            IN  IF parsed.raised
                THEN /\ pc' = "sys_exit"
                     /\ stderr' = stderr \cup {"invalid_date"}
                     /\ UNCHANGED <<start_sunday, stdout>>
                ELSE IF weekday(parsed.date) # 6
                THEN LET sunday == get_sunday_of_week(parsed.date)
                     IN  /\ stdout' = stdout \cup {"warning"}
                         /\ IF InRange(sunday)
                            THEN /\ pc' = "report"
                                 /\ start_sunday' = sunday
                                 /\ stderr' = stderr
                            ELSE /\ pc' = "traceback"
                                 /\ start_sunday' = parsed.date
                                 /\ stderr' = stderr \cup {"OverflowError"}
                ELSE /\ pc' = "report"
                     /\ start_sunday' = parsed.date
                     /\ UNCHANGED <<stdout, stderr>>
    /\ UNCHANGED <<message, args, bitmap, total_cols, today,
                   current_week_sunday, commits_to_make, confirm, d_idx, i,
                   announced, listed, git_log, git_calls>>

\* the two prints of the range; the second adds total_cols - 1 weeks
ReportRange ==
    /\ pc = "report"
    /\ IF InRange(start_sunday + 7 * (total_cols - 1))
       THEN /\ pc' = "map"
            /\ stdout' = stdout \cup {"start_sunday", "end_week"}
                                \cup (IF args.dry_run THEN {"dry_run_mode"} ELSE {})
            /\ stderr' = stderr
       ELSE /\ pc' = "traceback"
            /\ stdout' = stdout \cup {"start_sunday"}
            /\ stderr' = stderr \cup {"OverflowError"}
    /\ UNCHANGED <<message, args, bitmap, total_cols, today,
                   current_week_sunday, start_sunday, commits_to_make, confirm,
                   d_idx, i, announced, listed, git_log, git_calls>>

\* the loop that fills commits_to_make, and the print of the totals
MapPixels ==
    /\ pc = "map"
    /\ LET mapped == map_cols(bitmap, total_cols, start_sunday, 0, <<>>)
       IN  /\ commits_to_make' = mapped.list
           /\ IF mapped.raised
              THEN /\ pc' = "traceback"
                   /\ stderr' = stderr \cup {"OverflowError"}
                   /\ UNCHANGED <<announced, stdout>>
              ELSE /\ pc' = "mapped"
                   /\ announced' = Len(mapped.list) * args.commits_per_pixel
                   /\ stdout' = stdout \cup {"totals"}
                   /\ stderr' = stderr
    /\ UNCHANGED <<message, args, bitmap, total_cols, today,
                   current_week_sunday, start_sunday, confirm, d_idx, i, listed,
                   git_log, git_calls>>

\* if args.dry_run: print every date and return
DryRun ==
    /\ pc = "mapped"
    /\ args.dry_run
    /\ listed' = commits_to_make
    /\ stdout' = stdout \cup {"dry_run_done"}
    /\ pc' = "returned"
    /\ UNCHANGED <<message, args, bitmap, total_cols, today,
                   current_week_sunday, start_sunday, commits_to_make, confirm,
                   d_idx, i, announced, stderr, git_log, git_calls>>

\* A prompt that treats everything but "n" as consent.
Proceeds_unless_no(answer) == lower(answer) # "n"

\* whether the answer lets the run go on: confirm.lower() == "y"
Proceeds(answer) == lower(answer) = "y"

\* confirm = input(...); anything but y/Y aborts
Confirm ==
    /\ pc = "mapped"
    /\ ~args.dry_run
    /\ \E answer \in Answers :
          /\ confirm' = answer
          /\ IF Proceeds(answer)
             THEN /\ pc' = "commit_loop"
                  /\ d_idx' = 1
                  /\ i' = 0
                  /\ stdout' = stdout
             ELSE /\ pc' = "returned"
                  /\ stdout' = stdout \cup {"aborted"}
                  /\ UNCHANGED <<d_idx, i>>
    /\ UNCHANGED <<message, args, bitmap, total_cols, today,
                   current_week_sunday, start_sunday, commits_to_make,
                   announced, listed, stderr, git_log, git_calls>>

\* input() at end of file raises EOFError
ConfirmEOF ==
    /\ pc = "mapped"
    /\ ~args.dry_run
    /\ pc' = "traceback"
    /\ stderr' = stderr \cup {"EOFError"}
    /\ UNCHANGED <<message, args, bitmap, total_cols, today,
                   current_week_sunday, start_sunday, commits_to_make, confirm,
                   d_idx, i, announced, listed, stdout, git_log, git_calls>>

\* whether the nested loops have another (d, i) to run
HasNext == d_idx <= Len(commits_to_make) /\ i < args.commits_per_pixel

\* the step of the nested loops after one call returned
LoopStep ==
    IF i + 1 < args.commits_per_pixel
    THEN i' = i + 1 /\ d_idx' = d_idx
    ELSE i' = 0 /\ d_idx' = d_idx + 1

\* A handler that reports the failed git commit and lets the loops go on.
OnCommitFailure_swallowed ==
    /\ stderr' = stderr \cup {"git_commit_failed"}
    /\ pc' = "commit_loop"
    /\ LoopStep

\* except subprocess.CalledProcessError: print to stderr, sys.exit(1)
OnCommitFailure ==
    /\ stderr' = stderr \cup {"git_commit_failed"}
    /\ pc' = "sys_exit"
    /\ UNCHANGED <<i, d_idx>>

\* one make_commit_for_date(d, commit_msg) and the step of the loops after it
MakeCommit ==
    /\ pc = "commit_loop"
    /\ HasNext
    /\ git_calls' = git_calls + 1
    /\ \E created \in BOOLEAN :
          IF created
          THEN /\ git_log' = Append(git_log,
                                [date |-> commits_to_make[d_idx],
                                 part |-> i + 1,
                                 of   |-> args.commits_per_pixel])
               /\ pc' = "commit_loop"
               /\ stderr' = stderr
               /\ LoopStep
          ELSE /\ git_log' = git_log
               /\ OnCommitFailure
    /\ UNCHANGED <<message, args, bitmap, total_cols, today,
                   current_week_sunday, start_sunday, commits_to_make, confirm,
                   announced, listed, stdout>>

\* both loops are exhausted: print "All commits created."
AllCreated ==
    /\ pc = "commit_loop"
    /\ ~HasNext
    /\ stdout' = stdout \cup {"all_created"}
    /\ pc' = "returned"
    /\ UNCHANGED <<message, args, bitmap, total_cols, today,
                   current_week_sunday, start_sunday, commits_to_make, confirm,
                   d_idx, i, announced, listed, stderr, git_log, git_calls>>

Next ==
    \/ ParseArgs
    \/ EnsureGitRepo
    \/ BuildBitmap
    \/ AlignToToday
    \/ ApplyStartSunday
    \/ ReportRange
    \/ MapPixels
    \/ DryRun
    \/ Confirm
    \/ ConfirmEOF
    \/ MakeCommit
    \/ AllCreated

Spec == Init /\ [][Next]_vars

-----------------------------------------------------------------------------
(* Properties *)

\* the message holds supported characters only
Supported(msg) == \A k \in 1..Len(msg) : msg[k] \in DOMAIN FONT

\* the Sunday of the week that contains date
WeekStart(date) == CHOOSE s \in (date - 6)..date : weekday(s) = 6

\* the cells (row, col) of the bitmap that are on
OnCells ==
    {rc \in (0..6) \X (0..(total_cols - 1)) : bitmap[rc[1] + 1][rc[2] + 1] = "1"}

\* the on cells in the order of the loop: column by column, Sunday to Saturday
OnCellsInOrder ==
    SelectSeq([n \in 1..(7 * total_cols) |-> <<(n - 1) % 7, (n - 1) \div 7>>],
              LAMBDA rc : bitmap[rc[1] + 1][rc[2] + 1] = "1")

\* C1: once the mapping loop has run, commits_to_make has one entry per on
\* cell and no other: its dates are exactly start_sunday + 7*c + r over the on
\* cells (r, c), its length is the number of on cells, and every date maps
\* back through (date - start_sunday) div 7 and mod 7 to an on cell.
C1_DatesAreExactlyTheOnCells ==
    pc = "mapped" =>
        /\ {commits_to_make[k] : k \in 1..Len(commits_to_make)}
              = {start_sunday + 7 * rc[2] + rc[1] : rc \in OnCells}
        /\ Len(commits_to_make) = Cardinality(OnCells)
        /\ \A k \in 1..Len(commits_to_make) :
              LET off == commits_to_make[k] - start_sunday
              IN  /\ off >= 0
                  /\ off \div 7 < total_cols
                  /\ bitmap[(off % 7) + 1][(off \div 7) + 1] = "1"

C1_Witness ==
    /\ pc = "mapped"
    /\ message = MESSAGE
    /\ Len(commits_to_make) > 7
    /\ args.start_sunday.kind = "ymd"

\* C2: with no --start-sunday, for a bitmap of width W >= 1 the week of
\* start_sunday + (W - 1) weeks is the week of today, and today lies in the
\* seven days from start_sunday + 7*(W - 1) on.
C2_RightAligned ==
    (pc = "report" /\ args.start_sunday.kind = "None" /\ total_cols >= 1) =>
        LET last == start_sunday + 7 * (total_cols - 1)
        IN  /\ WeekStart(last) = WeekStart(today)
            /\ last <= today
            /\ today <= last + 6

C2_Witness ==
    /\ pc = "report"
    /\ args.start_sunday.kind = "None"
    /\ total_cols = 35
    /\ weekday(today) = 6

\* the run is past the handling of --start-sunday
PastStartSunday ==
    /\ pc \notin {"parse_args", "ensure_git_repo", "build_bitmap", "today",
                  "start_sunday"}
    /\ "not_a_git_repo" \notin stderr
    /\ "ValueError" \notin stderr

\* C3: with a parsable --start-sunday s, a Sunday s is the origin and no
\* warning is printed; any other s prints the warning, the run goes on, and
\* the origin is the Sunday o with s - 6 <= o < s.
C3_SnapToPreviousSunday ==
    (PastStartSunday /\ Truthy(args.start_sunday)
        /\ ~strptime_date(args.start_sunday).raised) =>
        LET s == strptime_date(args.start_sunday).date
        IN  IF weekday(s) = 6
            THEN start_sunday = s /\ "warning" \notin stdout
            ELSE /\ "warning" \in stdout
                 /\ (pc = "traceback" => "start_sunday" \in stdout)
                 /\ weekday(start_sunday) = 6
                 /\ s - 6 <= start_sunday
                 /\ start_sunday < s

\* C4: whenever the run is at the mapping loop or past it, start_sunday is a
\* Sunday, and the date emitted for an on cell of row r falls on day r of the
\* week, Sunday being day 0 and Saturday day 6.
C4_OriginIsSundayRowsAreWeekdays ==
    /\ pc \in {"map", "mapped"} => weekday(start_sunday) = 6
    /\ pc = "mapped" =>
          /\ Len(commits_to_make) = Len(OnCellsInOrder)
          /\ \A k \in 1..Len(commits_to_make) :
                (weekday(commits_to_make[k]) + 1) % 7 = OnCellsInOrder[k][1]

C4_Witness ==
    /\ pc = "mapped"
    /\ args.start_sunday.kind = "ymd"
    /\ "warning" \in stdout
    /\ \E k \in 1..Len(commits_to_make) : weekday(commits_to_make[k]) = 5

\* C5, as stated: for a message of supported characters build_bitmap returns
\* 7 rows, each of length 5*len(message) + (len(message) - 1).
C5_RowLengthAsStated ==
    pc = "today" =>
        /\ Len(bitmap) = 7
        /\ \A r \in 1..7 : Len(bitmap[r]) = 5 * Len(message) + (Len(message) - 1)

\* C5, amended: for a message of supported characters build_bitmap returns 7
\* rows, each of length 5*len(message) + (len(message) - 1) when the message
\* is not empty and of length 0 when it is.
C5_RowLength ==
    pc = "today" =>
        /\ Len(bitmap) = 7
        /\ \A r \in 1..7 :
              Len(bitmap[r]) = IF Len(message) = 0 THEN 0
                               ELSE 5 * Len(message) + (Len(message) - 1)

C5_Witness ==
    /\ pc = "today"
    /\ Len(message) >= 2
    /\ Len(bitmap) = 7

\* C6: the bitmap is the glyphs side by side, one all-off column between
\* neighbours, nothing before the first glyph and nothing after the last:
\* column 6k + j is column j of the glyph of character k, column 6k + 5 is off
\* in all 7 rows for k < n - 1, and the last column is column 4 of the last
\* glyph.
C6_GlyphsSideBySide ==
    pc = "today" =>
        LET n == Len(message)
        IN  /\ Len(bitmap) = 7
            /\ \A r \in 1..7 :
                  /\ n >= 1 => Len(bitmap[r]) = 6 * (n - 1) + 5
                  /\ \A k \in 0..(n - 1) :
                        /\ \A j \in 0..4 :
                              bitmap[r][6 * k + j + 1] = FONT[message[k + 1]][r][j + 1]
                        /\ k < n - 1 => bitmap[r][6 * k + 5 + 1] = "0"

C6_Witness ==
    /\ pc = "today"
    /\ message = MESSAGE
    /\ bitmap[1][1] = "1"
    /\ bitmap[7][33] = "1"

\* the run was given input that must be fatal
FatalInput ==
    \/ ~Supported(message)
    \/ /\ pc # "parse_args"
       /\ args.start_sunday.kind # "None"
       /\ strptime_date(args.start_sunday).raised

\* C7: when the message has a character without font entry, or the
\* --start-sunday string supplied does not parse, the run never reaches the
\* prompt, never runs git commit, and can only end in an error.
C7_FatalBeforeAnyCommit ==
    FatalInput =>
        /\ git_calls = 0
        /\ pc \notin {"mapped", "commit_loop", "returned"}

\* the planned commit at position k: dates in commits_to_make order, each
\* repeated commits_per_pixel times
PlannedAt(k) ==
    [date |-> commits_to_make[((k - 1) \div args.commits_per_pixel) + 1],
     part |-> ((k - 1) % args.commits_per_pixel) + 1,
     of   |-> args.commits_per_pixel]

PlannedLen ==
    IF args.commits_per_pixel > 0
    THEN Len(commits_to_make) * args.commits_per_pixel
    ELSE 0

\* C8: the commits created are always a prefix of the planned sequence; git
\* commit has run once per commit created, plus once if it failed; and a
\* failure ends the run at once, so that a failure at position k leaves
\* exactly k - 1 commits and k calls.
C8_StopOnFirstFailure ==
    /\ Len(git_log) <= PlannedLen
    /\ \A k \in 1..Len(git_log) : git_log[k] = PlannedAt(k)
    /\ git_calls = Len(git_log)
                     + (IF "git_commit_failed" \in stderr THEN 1 ELSE 0)
    /\ "git_commit_failed" \in stderr => pc = "sys_exit"

C8_Witness ==
    /\ pc = "sys_exit"
    /\ "git_commit_failed" \in stderr
    /\ args.commits_per_pixel = 2
    /\ Len(git_log) = 3
    /\ git_calls = 4

\* C9: git commit runs only with dry-run off and the answer y or Y; a dry run
\* lists the dates and returns without prompting or committing; any other
\* answer ends the run with "Aborted." and no commit.
C9_OnlyAfterConsent ==
    /\ git_calls > 0 => (~args.dry_run /\ confirm \in {"y", "Y"})
    /\ (pc # "parse_args" /\ args.dry_run) =>
          /\ confirm = "<unbound>"
          /\ git_calls = 0
          /\ pc = "returned" => (listed = commits_to_make
                                 /\ "dry_run_done" \in stdout)
    /\ confirm \notin {"<unbound>", "y", "Y"} =>
          /\ pc = "returned"
          /\ "aborted" \in stdout
          /\ git_calls = 0

C9_Witness ==
    /\ git_calls > 1
    /\ confirm = "Y"

\* C10: when the run reports "All commits created", every date of
\* commits_to_make got exactly commits_per_pixel commits, parts 1..N in a row,
\* date after date in increasing calendar order, and the number of commits
\* created is the total announced, on pixels * N.
C10_AllCreatedMeansAnnouncedTotal ==
    "all_created" \in stdout =>
        /\ Len(git_log) = announced
        /\ announced = Len(commits_to_make) * args.commits_per_pixel
        /\ args.commits_per_pixel > 0 =>
              /\ \A k \in 1..Len(git_log) : git_log[k] = PlannedAt(k)
              /\ \A k \in 1..(Len(commits_to_make) - 1) :
                    commits_to_make[k] < commits_to_make[k + 1]

====
